---- MODULE Spec2Model ----
(***************************************************************************)
(* Model of allauth/socialaccount/models.py: the SocialLogin aggregate     *)
(* (lookup / save / connect), the persistence model it writes to           *)
(* (SocialApp, SocialAccount, SocialToken and the User table) and the      *)
(* session stash of the handshake state (stash_state, unstash_state,       *)
(* verify_and_unstash_state).                                              *)
(*                                                                         *)
(* The specifications share the variables:                                  *)
(*   Spec        the persistence model and the SocialLogin aggregates;     *)
(*   TokenSpec   one identity, logins that carry tokens;                   *)
(*   ReloginSpec one identity logging in again and again;                  *)
(*   SignupSpec  logins that carry e-mail addresses;                       *)
(*   StateSpec   the state map, serialize and deserialize;                 *)
(*   StashSpec   the session stash;                                        *)
(*   ReplaySpec  the session stash with the history of its calls;          *)
(*   LifecycleSpec  one aggregate from construction to persistence;        *)
(*   RaceSpec    two handshakes of one identity, interleaved.              *)
(* The stash only touches request.session, the aggregate operations only   *)
(* the database and the aggregate itself.                                  *)
(***************************************************************************)
EXTENDS Integers, Sequences, FiniteSets, TLC

VARIABLES
    session,    \* session[s]: the dict request.session of session s
    lastCall,   \* lastCall[s]: the latest stash operation on session s and its outcome
    users,      \* the User table, indexed by primary key
    accounts,   \* the SocialAccount table, indexed by primary key
    tokens,     \* the SocialToken table, indexed by primary key
    sl,         \* sl[i]: the SocialLogin aggregate of login attempt i
    clock,      \* the database clock (auto_now / auto_now_add)
    settings,   \* app_settings: STORE_TOKENS
    defaults,   \* the default argument values of SocialLogin.__init__
    last,       \* the aggregate operation that has just run, and its outcome
    previous    \* the lookup that ran before, while no other operation followed it

stashVars == <<session, lastCall>>
dbVars ==
    <<users, accounts, tokens, sl, clock, settings, defaults, last, previous>>
vars == <<session, lastCall, users, accounts, tokens, sl, clock, settings,
          defaults, last, previous>>

-----------------------------------------------------------------------------
(* Bounds of the model.                                                    *)

NumSessions == 2
NumLogins == 2
MaxUsers == 2
MaxAccounts == 2
MaxClock == 2

Sessions == 1..NumSessions
Logins == 1..NumLogins

\* The specifications of the persistence model serve one login attempt at a
\* time: the aggregate of the request being handled.
Attempts == {1}

-----------------------------------------------------------------------------
(* Requests.                                                               *)

Sites == {1, 2}
ParamNames == {"next", "process", "scope", "auth_params"}

ParamValue(name) ==
    CASE name = "next" -> "/home"
      [] name = "process" -> "connect"
      [] name = "scope" -> "email"
      [] name = "auth_params" -> "prompt"

\* The query parameters of a request: any subset of the known parameters.
Params == {[k \in D |-> ParamValue(k)] : D \in SUBSET ParamNames}

Requests == [site : Sites, params : Params]

\* The requests that start a handshake in the stash specification: the stash
\* treats the state map as opaque, so two parameters that vary are enough.
StashRequests ==
    {r \in Requests : r.site = 1 /\ DOMAIN r.params \subseteq {"next", "process"}}

get_current_site(request) == request.site

get_request_param(request, name, default) ==
    IF name \in DOMAIN request.params THEN request.params[name] ELSE default

\* "" stands for None: no redirect target was requested.
get_next_redirect_url(request) ==
    IF "next" \in DOMAIN request.params THEN request.params["next"] ELSE ""

-----------------------------------------------------------------------------
(* The handshake state stash.                                              *)

StateKey == "socialaccount_state"

Verifiers == {"v1", "v2"}

\* state_from_request without the test of line 354: 'next' is always stored.
state_from_request_always_next(request) ==
    [next |-> get_next_redirect_url(request),
     site |-> get_current_site(request),
     process |-> get_request_param(request, "process", "login"),
     scope |-> get_request_param(request, "scope", ""),
     auth_params |-> get_request_param(request, "auth_params", "")]

state_from_request(request) ==
    LET next_url == get_next_redirect_url(request)
        base == [site |-> get_current_site(request),
                 process |-> get_request_param(request, "process", "login"),
                 scope |-> get_request_param(request, "scope", ""),
                 auth_params |-> get_request_param(request, "auth_params", "")]
    IN  IF next_url # ""
        THEN [next |-> next_url, site |-> base.site, process |-> base.process,
              scope |-> base.scope, auth_params |-> base.auth_params]
        ELSE base

EmptySession == [k \in {} |-> <<>>]

\* dict.pop(key)
Pop(d, key) == [k \in DOMAIN d \ {key} |-> d[k]]

\* d[key] = value
SetItem(d, key, value) ==
    [k \in DOMAIN d \cup {key} |-> IF k = key THEN value ELSE d[k]]

NoState == [none |-> TRUE]

Flip(b) == 1 - b

\* One record per call: the operation, the verifier it was given (verify) or
\* returned (stash), the outcome, the state map returned (stash records the map
\* it built), and a bit that flips on every call on the session.
Call(op, verifier, outcome, state, tick) ==
    [op |-> op, verifier |-> verifier, outcome |-> outcome, state |-> state,
     tick |-> tick]

\* stash_state that keeps an entry the session already holds (setdefault).
stash_state_keeping_first(s, request, verifier) ==
    LET state == state_from_request(request)
    IN  /\ session' = [session EXCEPT
                          ![s] = IF StateKey \in DOMAIN @ THEN @
                                 ELSE SetItem(@, StateKey, <<state, verifier>>)]
        /\ lastCall' = [lastCall EXCEPT
                          ![s] = Call("stash", verifier, "ok", state, Flip(@.tick))]

stash_state(s, request, verifier) ==
    LET state == state_from_request(request)
    IN  /\ session' = [session EXCEPT
                          ![s] = SetItem(@, StateKey, <<state, verifier>>)]
        /\ lastCall' = [lastCall EXCEPT
                          ![s] = Call("stash", verifier, "ok", state, Flip(@.tick))]

\* unstash_state reading the entry with [] instead of pop.
unstash_state_peek(s) ==
    IF StateKey \notin DOMAIN session[s]
    THEN /\ lastCall' = [lastCall EXCEPT
                           ![s] = Call("unstash", "", "PermissionDenied", NoState,
                                       Flip(@.tick))]
         /\ UNCHANGED session
    ELSE /\ lastCall' = [lastCall EXCEPT
                           ![s] = Call("unstash", "", "ok",
                                       session[s][StateKey][1], Flip(@.tick))]
         /\ UNCHANGED session

unstash_state(s) ==
    IF StateKey \notin DOMAIN session[s]
    THEN /\ lastCall' = [lastCall EXCEPT
                           ![s] = Call("unstash", "", "PermissionDenied", NoState,
                                       Flip(@.tick))]
         /\ UNCHANGED session
    ELSE LET popped == session[s][StateKey]
         IN  /\ session' = [session EXCEPT ![s] = Pop(@, StateKey)]
             /\ lastCall' = [lastCall EXCEPT
                               ![s] = Call("unstash", "", "ok", popped[1],
                                           Flip(@.tick))]

\* verify_and_unstash_state reading the entry with [] instead of pop.
verify_and_peek(s, verifier) ==
    IF StateKey \notin DOMAIN session[s] \/ session[s][StateKey][2] # verifier
    THEN /\ lastCall' = [lastCall EXCEPT
                           ![s] = Call("verify", verifier, "PermissionDenied",
                                       NoState, Flip(@.tick))]
         /\ UNCHANGED session
    ELSE /\ lastCall' = [lastCall EXCEPT
                           ![s] = Call("verify", verifier, "ok",
                                       session[s][StateKey][1], Flip(@.tick))]
         /\ UNCHANGED session

\* verify_and_unstash_state comparing first and popping on a match only.
verify_then_pop(s, verifier) ==
    IF StateKey \notin DOMAIN session[s] \/ session[s][StateKey][2] # verifier
    THEN /\ lastCall' = [lastCall EXCEPT
                           ![s] = Call("verify", verifier, "PermissionDenied",
                                       NoState, Flip(@.tick))]
         /\ UNCHANGED session
    ELSE /\ session' = [session EXCEPT ![s] = Pop(@, StateKey)]
         /\ lastCall' = [lastCall EXCEPT
                           ![s] = Call("verify", verifier, "ok",
                                       session[s][StateKey][1], Flip(@.tick))]

\* verify_and_unstash_state without the comparison of the verifiers.
verify_without_compare(s, verifier) ==
    IF StateKey \notin DOMAIN session[s]
    THEN /\ lastCall' = [lastCall EXCEPT
                           ![s] = Call("verify", verifier, "PermissionDenied",
                                       NoState, Flip(@.tick))]
         /\ UNCHANGED session
    ELSE /\ session' = [session EXCEPT ![s] = Pop(@, StateKey)]
         /\ lastCall' = [lastCall EXCEPT
                           ![s] = Call("verify", verifier, "ok",
                                       session[s][StateKey][1], Flip(@.tick))]

verify_and_unstash_state(s, verifier) ==
    IF StateKey \notin DOMAIN session[s]
    THEN /\ lastCall' = [lastCall EXCEPT
                           ![s] = Call("verify", verifier, "PermissionDenied",
                                       NoState, Flip(@.tick))]
         /\ UNCHANGED session
    ELSE LET popped == session[s][StateKey]
             verifier2 == popped[2]
         IN  /\ session' = [session EXCEPT ![s] = Pop(@, StateKey)]
             /\ lastCall' = [lastCall EXCEPT
                               ![s] = IF verifier # verifier2
                                      THEN Call("verify", verifier,
                                                "PermissionDenied", NoState,
                                                Flip(@.tick))
                                      ELSE Call("verify", verifier, "ok",
                                                popped[1], Flip(@.tick))]

StashState ==
    /\ \E s \in Sessions, request \in StashRequests, verifier \in Verifiers :
          stash_state(s, request, verifier)
    /\ UNCHANGED dbVars

UnstashState ==
    /\ \E s \in Sessions : unstash_state(s)
    /\ UNCHANGED dbVars

VerifyAndUnstashState ==
    /\ \E s \in Sessions, verifier \in Verifiers :
          verify_and_unstash_state(s, verifier)
    /\ UNCHANGED dbVars

-----------------------------------------------------------------------------
(* The persistence model.                                                  *)

\* Python's None where the field is a number (a primary key, a foreign key,
\* a timestamp).
None == 0

Providers == {"google", "twitter"}
Uids == {"u1", "u2"}
ExtraData == {"e1", "e2"}
Usernames == {"alice"}
AccessTokens == {"t1", "t2"}
TokenSecrets == {"", "r1", "r2"}
Expiries == {None, 1}

\* The SocialApp table (configuration, never written by SocialLogin): google is
\* configured once for site 1 and not at all for site 2; twitter once for
\* site 1 and twice for site 2.
SocialApp ==
    << [provider |-> "google", sites |-> {1}],
       [provider |-> "twitter", sites |-> {1, 2}],
       [provider |-> "twitter", sites |-> {2}] >>

AppIds == DOMAIN SocialApp

\* get_current taking the first of the rows that match (filter(...)[0]).
get_current_first(provider, request) ==
    LET site == get_current_site(request)
        found == {a \in AppIds : /\ site \in SocialApp[a].sites
                                 /\ SocialApp[a].provider = provider}
    IN  IF found = {} THEN [status |-> "DoesNotExist", app |-> None]
        ELSE [status |-> "ok", app |-> CHOOSE a \in found : \A b \in found : a <= b]

\* get_current returning None where no row matches (filter(...).first()).
get_current_or_none(provider, request) ==
    LET site == get_current_site(request)
        found == {a \in AppIds : /\ site \in SocialApp[a].sites
                                 /\ SocialApp[a].provider = provider}
    IN  IF found = {} THEN [status |-> "ok", app |-> None]
        ELSE IF Cardinality(found) > 1
             THEN [status |-> "MultipleObjectsReturned", app |-> None]
             ELSE [status |-> "ok", app |-> CHOOSE a \in found : TRUE]

\* SocialAppManager.get_current: Manager.get raises DoesNotExist for no row and
\* MultipleObjectsReturned for several.
get_current(provider, request) ==
    LET site == get_current_site(request)
        found == {a \in AppIds : /\ site \in SocialApp[a].sites
                                 /\ SocialApp[a].provider = provider}
    IN  IF found = {} THEN [status |-> "DoesNotExist", app |-> None]
        ELSE IF Cardinality(found) > 1
             THEN [status |-> "MultipleObjectsReturned", app |-> None]
             ELSE [status |-> "ok", app |-> CHOOSE a \in found : TRUE]

\* The account never found: every login is a first login.
AccountGetNothing(app, uid) == {}

\* SocialAccount.objects.get(app=app, uid=uid): the primary keys that match.
AccountGet(app, uid) ==
    {a \in DOMAIN accounts : accounts[a].app = app /\ accounts[a].uid = uid}

\* The SocialAccount table without its unique_together.
AccountConflictUnchecked(table, app, uid) == FALSE

\* unique_together = ('app', 'uid'): the insert of such a row is rejected.
AccountConflict(table, app, uid) ==
    \E a \in DOMAIN table : table[a].app = app /\ table[a].uid = uid

\* The stored token never found: every re-login inserts.
TokenGetNothing(account, app) == {}

\* SocialToken.objects.get(account=account, app=app): the primary keys that match.
TokenGet(account, app) ==
    {t \in DOMAIN tokens : tokens[t].account = account /\ tokens[t].app = app}

\* The SocialToken table without its unique_together.
TokenConflictUnchecked(table, app, account) == FALSE

\* unique_together = ('app', 'account')
TokenConflict(table, app, account) ==
    \E t \in DOMAIN table : table[t].app = app /\ table[t].account = account

\* app = models.ForeignKey(...) is not nullable: the save of a token that is
\* bound to no application is rejected.
TokenRejected(t) == t.app = None

\* A SocialAccount as a provider builds it: not saved, no user row, no app.
NewAccount(provider, uid, extra_data) ==
    [pk |-> None, user |-> None, provider |-> provider, uid |-> uid,
     last_login |-> None, extra_data |-> extra_data,
     app |-> None]

\* A SocialToken as a provider builds it: not saved, bound to no account.
NewToken(app, token, token_secret, expires_at) ==
    [pk |-> None, app |-> app, account |-> None, token |-> token,
     token_secret |-> token_secret, expires_at |-> expires_at]

\* The apps a candidate token may name.
TokenApps == {1, 2}

\* The optional token of an aggregate: <<>> is None.
CandidateTokens ==
    {<<>>} \cup {<<NewToken(a, t, s, e)>> :
                    a \in TokenApps, t \in AccessTokens, s \in TokenSecrets,
                    e \in Expiries}

\* self.state = {}
EmptyState == [k \in {} |-> ""]

\* An EmailAddress as a provider builds it: not saved, bound to no user.
EmailAddress(email, verified) ==
    [pk |-> None, user |-> None, email |-> email, verified |-> verified]

NoLogin ==
    [live |-> FALSE, user |-> [pk |-> None, username |-> ""],
     account |-> NewAccount("", "", ""), token |-> <<>>,
     email_addresses |-> <<>>, default_emails |-> FALSE, state |-> EmptyState]

\* self.email_addresses: the list the aggregate refers to, which is the list
\* object of __init__'s default when the aggregate was given none.
EmailsOf(self) ==
    IF self.default_emails THEN defaults.email_addresses
    ELSE self.email_addresses

\* The precondition of save and lookup never failing (assert compiled away).
is_existing_never(self) == FALSE

\* SocialLogin.is_existing: the account's primary key, used as a truth value.
is_existing(self) == self.account.pk # None

\* A call an operation made on a collaborator and that returned: the save of a
\* row (pk: the row's primary key) or setup_user_email (pk: the user's primary
\* key, emails: the list handed over).
Effect(call, pk, emails) == [call |-> call, pk |-> pk, emails |-> emails]

\* What an operation hands back to its caller, with what it was called on: the
\* operation, the aggregate (its index and its value on entry), the site of the
\* request, the connect flag, the user handed to connect, the outcome
\* ("ok" or the exception raised) and the calls it made that returned, in
\* order.  The caller takes it (Return) before the next operation starts.
Outcome(op, who, entry, site, connect, user, result, calls) ==
    [op |-> op, who |-> who, entry |-> entry, site |-> site, connect |-> connect,
     user |-> user, result |-> result, calls |-> calls]

NoCall ==
    [op |-> "none", who |-> None, entry |-> NoLogin, site |-> None,
     connect |-> FALSE, user |-> None, result |-> "ok", calls |-> <<>>]

\* A request of the given site.
RequestOf(site) == [site |-> site, params |-> [k \in {} |-> ""]]

\* The test of lines 291 and 324 without the setting.
StoresTokenAlways(self) == Len(self.token) > 0

\* lines 291, 324: app_settings.STORE_TOKENS and self.token
StoresToken(self) == settings.STORE_TOKENS /\ Len(self.token) > 0

-----------------------------------------------------------------------------
(* SocialLogin.__init__                                                    *)

\* email_addresses is <<>> when the caller passes none and <<list>> when it
\* passes a list: the default is one list object, made when the class is
\* defined, that every such aggregate then refers to.
init(i, user, account, token, email_addresses) ==
    /\ Len(token) > 0 => (token[1].account = None \/ token[1].account = account.pk)
    /\ sl' = [sl EXCEPT ![i] = [live |-> TRUE, user |-> user, account |-> account,
                                token |-> token,
                                email_addresses |->
                                    IF email_addresses = <<>> THEN <<>>
                                    ELSE email_addresses[1],
                                default_emails |-> email_addresses = <<>>,
                                state |-> EmptyState]]
    /\ UNCHANGED <<users, accounts, tokens, clock, settings, defaults, last, previous>>

-----------------------------------------------------------------------------
(* SocialLogin.lookup                                                      *)

\* The user object behind a foreign key.
UserOf(pk) == [pk |-> pk, username |-> users[pk].username]

\* The token update without the test of line 330: an empty secret overwrites.
UpdateTokenOverwritingSecret(t, candidate) ==
    [t EXCEPT !.token = candidate.token,
              !.token_secret = candidate.token_secret,
              !.expires_at = candidate.expires_at]

\* The token update treating the expiry like the secret: None does not overwrite.
UpdateTokenKeepingExpiry(t, candidate) ==
    [t EXCEPT !.token = candidate.token,
              !.token_secret = IF candidate.token_secret # ""
                               THEN candidate.token_secret
                               ELSE @,
              !.expires_at = IF candidate.expires_at # None
                             THEN candidate.expires_at
                             ELSE @]

\* lines 329-334: the stored token t takes the values of the candidate.
UpdateToken(t, candidate) ==
    [t EXCEPT !.token = candidate.token,
              !.token_secret = IF candidate.token_secret # ""
                               THEN candidate.token_secret
                               ELSE @,
              !.expires_at = candidate.expires_at]

\* The account update without line 319: the stored extra_data stays.
UpdateAccountKeepingExtraData(a, candidate) == [a EXCEPT !.last_login = clock]

\* The account update copying the candidate's application as well, which a
\* provider leaves unset.
UpdateAccountAndApp(a, candidate) ==
    [a EXCEPT !.extra_data = candidate.extra_data, !.app = candidate.app,
              !.last_login = clock]

\* lines 319, 322: the found account takes the candidate's extra_data and is
\* saved (auto_now stamps last_login).
UpdateAccount(a, candidate) ==
    [a EXCEPT !.extra_data = candidate.extra_data, !.last_login = clock]

\* SocialAccount.DoesNotExist propagating out of lookup.
account_does_not_exist_raises(passed, raised) == last' = raised

\* lines 340-341: except SocialAccount.DoesNotExist: pass
account_does_not_exist(passed, raised) == last' = passed

lookup(i, request) ==
    LET self == sl[i]
        site == get_current_site(request)
        r == get_current(self.account.provider, request)
        Done(result, calls) ==
            Outcome("lookup", i, self, site, FALSE, None, result, calls)
        Raise(result) ==
            /\ last' = Done(result, <<>>)
            /\ UNCHANGED <<users, accounts, tokens, sl, clock, settings, defaults, previous>>
    IN  IF is_existing(self) THEN Raise("AssertionError")
        ELSE IF r.status = "DoesNotExist"
        \* the handler of SocialApp.DoesNotExist uses a name the module never binds
        THEN Raise("NameError")
        ELSE IF r.status = "MultipleObjectsReturned"
        THEN Raise("MultipleObjectsReturned")
        ELSE
        LET found == AccountGet(r.app, self.account.uid)
        IN  IF found = {}
            THEN /\ account_does_not_exist(Done("ok", <<>>),
                                           Done("DoesNotExist", <<>>))
                 /\ UNCHANGED <<users, accounts, tokens, sl, clock, settings, defaults,
                                previous>>
            ELSE IF Cardinality(found) > 1
            THEN Raise("MultipleObjectsReturned")
            ELSE
            LET pk == CHOOSE a \in found : TRUE
                a == UpdateAccount(accounts[pk], self.account)
                self1 == [self EXCEPT !.account = a, !.user = UserOf(a.user)]
                saved == <<Effect("account.save", pk, <<>>)>>
            IN  /\ accounts' = [accounts EXCEPT ![pk] = a]
                /\ UNCHANGED <<users, clock, settings, defaults, previous>>
                /\ IF StoresToken(self)
                   THEN IF self.token[1].pk # None
                        THEN /\ sl' = [sl EXCEPT ![i] = self1]
                             /\ last' = Done("AssertionError", saved)
                             /\ UNCHANGED tokens
                        ELSE IF self.token[1].app = None
                        \* self.token.app of a token bound to no application
                        \* raises SocialApp.DoesNotExist, and its handler
                        \* uses a name the module never binds
                        THEN /\ sl' = [sl EXCEPT ![i] = self1]
                             /\ last' = Done("NameError", saved)
                             /\ UNCHANGED tokens
                        ELSE
                        LET ts == TokenGet(a.pk, self.token[1].app)
                        IN  IF ts # {}
                            THEN LET tpk == CHOOSE t \in ts : TRUE
                                     t == UpdateToken(tokens[tpk], self.token[1])
                                 IN  /\ tokens' = [tokens EXCEPT ![tpk] = t]
                                     /\ sl' = [sl EXCEPT
                                                 ![i] = [self1 EXCEPT !.token = <<t>>]]
                                     /\ last' =
                                           Done("ok",
                                                Append(saved,
                                                       Effect("token.save", tpk,
                                                              <<>>)))
                            ELSE \* except SocialToken.DoesNotExist
                                 LET t0 == [self.token[1] EXCEPT !.account = a.pk]
                                     t == [t0 EXCEPT !.pk = Len(tokens) + 1]
                                 IN  IF TokenConflict(tokens, t0.app, t0.account)
                                     THEN /\ sl' = [sl EXCEPT
                                                      ![i] = [self1 EXCEPT
                                                                 !.token = <<t0>>]]
                                          /\ last' = Done("IntegrityError", saved)
                                          /\ UNCHANGED tokens
                                     ELSE /\ tokens' = Append(tokens, t)
                                          /\ sl' = [sl EXCEPT
                                                      ![i] = [self1 EXCEPT
                                                                 !.token = <<t>>]]
                                          /\ last' =
                                                Done("ok",
                                                     Append(saved,
                                                            Effect("token.save",
                                                                   t.pk, <<>>)))
                   ELSE /\ sl' = [sl EXCEPT ![i] = self1]
                        /\ last' = Done("ok", saved)
                        /\ UNCHANGED tokens

-----------------------------------------------------------------------------
(* SocialLogin.save and SocialLogin.connect                                *)

\* Lines 288-289 with the application left unbound.
BindAccountWithoutApp(account, user, app) == [account EXCEPT !.user = user.pk]

\* lines 288-289: self.account.user = user; self.account.app = app
BindAccount(account, user, app) ==
    [account EXCEPT !.user = user.pk, !.app = app]

\* Lines 294-298 without the test of connect.
EmailSetupAlways(connect, user, email_addresses) ==
    <<Effect("setup_user_email", user.pk, email_addresses)>>

\* lines 294-298: the calls of setup_user_email that the end of save makes.
EmailSetup(connect, user, email_addresses) ==
    IF connect
    THEN <<>>
    ELSE <<Effect("setup_user_email", user.pk, email_addresses)>>

\* The writes of a save that raises later being rolled back (a transaction
\* around lines 287-293).
RollBackWrites(before, after) == before

\* lines 287-293: each save() is committed when it returns; the table after a
\* later write of the same call has failed is the table as written.
KeepWrites(before, after) == after

\* `self` is the aggregate as save finds it: connect has set its user, and
\* `entry` is the aggregate as connect found it.
save(i, entry, self, request, connect, op) ==
    LET site == get_current_site(request)
        r == get_current(self.account.provider, request)
        Done(result, calls) ==
            Outcome(op, i, entry, site, connect,
                    IF op = "connect" THEN self.user.pk ELSE None, result, calls)
        Raise(result) ==
            /\ last' = Done(result, <<>>)
            /\ sl' = [sl EXCEPT ![i] = self]
            /\ UNCHANGED <<users, accounts, tokens, clock, settings, defaults, previous>>
    IN  IF is_existing(self) THEN Raise("AssertionError")
        ELSE IF r.status # "ok" THEN Raise(r.status)
        ELSE
        LET insertUser == self.user.pk = None
            user == IF insertUser
                    THEN [self.user EXCEPT !.pk = Len(users) + 1]
                    ELSE self.user
            account0 == BindAccount(self.account, user, r.app)
            userSaved == <<Effect("user.save", user.pk, <<>>)>>
            usersAfter ==
                IF insertUser
                THEN Append(users, [username |-> user.username])
                ELSE [users EXCEPT ![user.pk] = [username |-> user.username]]
        IN  /\ insertUser => Len(users) < MaxUsers
            /\ UNCHANGED <<clock, settings, defaults, previous>>
            /\ IF AccountConflict(accounts, account0.app, account0.uid)
               THEN \* account.save() raises; the user row stays
                    /\ users' = KeepWrites(users, usersAfter)
                    /\ sl' = [sl EXCEPT ![i] = [self EXCEPT !.user = user,
                                                            !.account = account0]]
                    /\ last' = Done("IntegrityError", userSaved)
                    /\ UNCHANGED <<accounts, tokens>>
               ELSE
               LET account == [account0 EXCEPT !.pk = Len(accounts) + 1,
                                               !.last_login = clock]
                   self1 == [self EXCEPT !.user = user, !.account = account]
                   accountSaved ==
                       Append(userSaved, Effect("account.save", account.pk, <<>>))
                   accountsAfter == Append(accounts, account)
               IN  /\ Len(accounts) < MaxAccounts
                   /\ IF StoresToken(self)
                      THEN LET t0 == [self.token[1] EXCEPT !.account = account.pk]
                           IN  IF \/ TokenRejected(t0)
                                  \/ TokenConflict(tokens, t0.app, t0.account)
                               THEN \* token.save() raises; user and account stay
                                    /\ users' = KeepWrites(users, usersAfter)
                                    /\ accounts' = KeepWrites(accounts, accountsAfter)
                                    /\ sl' = [sl EXCEPT
                                                ![i] = [self1 EXCEPT !.token = <<t0>>]]
                                    /\ last' = Done("IntegrityError", accountSaved)
                                    /\ UNCHANGED tokens
                               ELSE LET t == [t0 EXCEPT !.pk = Len(tokens) + 1]
                                    IN  /\ users' = usersAfter
                                        /\ accounts' = accountsAfter
                                        /\ tokens' = Append(tokens, t)
                                        /\ sl' = [sl EXCEPT
                                                    ![i] = [self1 EXCEPT
                                                               !.token = <<t>>]]
                                        /\ last' =
                                              Done("ok",
                                                   Append(accountSaved,
                                                          Effect("token.save",
                                                                 t.pk, <<>>))
                                                   \o EmailSetup(connect, user,
                                                                 EmailsOf(self)))
                      ELSE /\ users' = usersAfter
                           /\ accounts' = accountsAfter
                           /\ sl' = [sl EXCEPT ![i] = self1]
                           /\ last' = Done("ok",
                                           accountSaved
                                           \o EmailSetup(connect, user,
                                                         EmailsOf(self)))
                           /\ UNCHANGED tokens

\* connect without line 242: the candidate user is saved.
connect_keeping_candidate(i, request, user) ==
    save(i, sl[i], sl[i], request, TRUE, "connect")

connect(i, request, user) ==
    save(i, sl[i], [sl[i] EXCEPT !.user = user], request, TRUE, "connect")

-----------------------------------------------------------------------------
(* SocialLogin.serialize, SocialLogin.deserialize, get_redirect_url        *)

\* The transport-safe form of a model instance: its field values by name, as
\* a JSON object (a set of name/value pairs).
serialize_instance(instance) == {<<k, instance[k]>> : k \in DOMAIN instance}

\* An instance of the model with the field values of the JSON object.
deserialize_instance(data) ==
    [k \in {p[1] : p \in data} |-> (CHOOSE p \in data : p[1] = k)[2]]

\* serialize without lines 251-252: the token is left out.
serialize_without_token(self) ==
    [account |-> serialize_instance(self.account),
     user |-> serialize_instance(self.user),
     state |-> self.state,
     email_addresses |-> [k \in DOMAIN EmailsOf(self) |->
                             serialize_instance(EmailsOf(self)[k])]]

serialize(self) ==
    LET ret == [account |-> serialize_instance(self.account),
                user |-> serialize_instance(self.user),
                state |-> self.state,
                email_addresses |-> [k \in DOMAIN EmailsOf(self) |->
                                        serialize_instance(EmailsOf(self)[k])]]
    IN  IF Len(self.token) > 0
        THEN SetItem(ret, "token", serialize_instance(self.token[1]))
        ELSE ret

deserialize(data) ==
    LET account == deserialize_instance(data["account"])
        user == deserialize_instance(data["user"])
        token == IF "token" \in DOMAIN data
                 THEN <<deserialize_instance(data["token"])>>
                 ELSE <<>>
        email_addresses == [k \in DOMAIN data["email_addresses"] |->
                               deserialize_instance(data["email_addresses"][k])]
        \* ret = SocialLogin()
        ret == [live |-> TRUE, user |-> [pk |-> None, username |-> ""],
                account |-> NewAccount("", "", ""), token |-> <<>>,
                email_addresses |-> <<>>, default_emails |-> TRUE,
                state |-> EmptyState]
    \* ret.email_addresses = email_addresses: the list built on line 263
    IN  [ret EXCEPT !.token = token, !.account = account, !.user = user,
                    !.email_addresses = email_addresses,
                    !.default_emails = FALSE,
                    !.state = data["state"]]

\* get_redirect_url reading the request instead of the stored state.
get_redirect_url_of_request(self, request) == get_next_redirect_url(request)

\* "" stands for None: dict.get of a key that is not there.
get_redirect_url(self, request) ==
    IF "next" \in DOMAIN self.state THEN self.state["next"] ELSE ""

-----------------------------------------------------------------------------
(* The environment.                                                        *)

\* A user signs up by other means (tests.py: get_user_model().objects.create).
create_user(username) ==
    /\ Len(users) < MaxUsers
    /\ users' = Append(users, [username |-> username])
    /\ UNCHANGED <<accounts, tokens, sl, clock, settings, defaults, last, previous>>

-----------------------------------------------------------------------------
(* Actions and specifications.                                             *)

\* A provider hands over a login attempt that carries no token.
Construct ==
    /\ last = NoCall
    /\ \E i \in Attempts, provider \in Providers, uid \in Uids,
          extra_data \in ExtraData, username \in Usernames :
          init(i, [pk |-> None, username |-> username],
               NewAccount(provider, uid, extra_data), <<>>, <<>>)
    /\ UNCHANGED stashVars

\* An OAuth provider hands over a login attempt of the one identity of the
\* token specification, with or without a token.
ConstructWithToken ==
    /\ last = NoCall
    /\ \E i \in Attempts, username \in Usernames, token \in CandidateTokens :
          init(i, [pk |-> None, username |-> username],
               NewAccount("google", "u1", "e1"), token, <<>>)
    /\ UNCHANGED stashVars

Lookup ==
    /\ last = NoCall
    /\ \E i \in Attempts, site \in Sites :
          /\ sl[i].live
          /\ lookup(i, RequestOf(site))
    /\ UNCHANGED stashVars

Save ==
    /\ last = NoCall
    /\ \E i \in Attempts, site \in Sites, c \in BOOLEAN :
          /\ sl[i].live
          /\ save(i, sl[i], sl[i], RequestOf(site), c, "save")
    /\ UNCHANGED stashVars

Connect ==
    /\ last = NoCall
    /\ \E i \in Attempts, site \in Sites, u \in DOMAIN users :
          /\ sl[i].live
          /\ connect(i, RequestOf(site), UserOf(u))
    /\ UNCHANGED stashVars

CreateUser ==
    /\ last = NoCall
    /\ \E username \in Usernames : create_user(username)
    /\ UNCHANGED stashVars

Tick ==
    /\ last = NoCall
    /\ clock < MaxClock
    /\ clock' = clock + 1
    /\ UNCHANGED <<users, accounts, tokens, sl, settings, defaults, last, previous>>
    /\ UNCHANGED stashVars

\* The caller has taken the outcome of the operation.
Return ==
    /\ last # NoCall
    /\ last' = NoCall
    /\ UNCHANGED <<users, accounts, tokens, sl, clock, settings, defaults, previous>>
    /\ UNCHANGED stashVars

\* What is kept of a lookup for the next operation to compare with: its
\* outcome and the account the aggregate held when it returned.
Kept(outcome, account) == [call |-> outcome, account |-> account]

NoPrevious == Kept(NoCall, None)

\* The caller has taken the outcome and keeps it when it is a lookup's.
ReturnKept ==
    /\ last # NoCall
    /\ last' = NoCall
    /\ previous' = IF last.op = "lookup"
                   THEN Kept(last, sl[last.who].account.pk)
                   ELSE NoPrevious
    /\ UNCHANGED <<users, accounts, tokens, sl, clock, settings, defaults>>
    /\ UNCHANGED stashVars

\* The tokens a provider of the re-login specification hands over.
ReloginTokens ==
    {<<>>} \cup {<<NewToken(1, t, s, None)>> :
                    t \in AccessTokens, s \in {"", "r1"}}

\* A provider hands over a login attempt of the one identity of the re-login
\* specification.
ConstructRelogin ==
    /\ last = NoCall
    /\ \E i \in Attempts, extra_data \in ExtraData, username \in Usernames,
          token \in ReloginTokens :
          init(i, [pk |-> None, username |-> username],
               NewAccount("google", "u1", extra_data), token, <<>>)
    /\ UNCHANGED stashVars

\* The e-mail lists a provider of the signup specification reports.
SignupEmails ==
    {<<>>, <<EmailAddress("a@x", TRUE)>>,
     <<EmailAddress("a@x", TRUE), EmailAddress("b@x", FALSE)>>}

\* The tokens a provider of the signup specification hands over.
SignupTokens == {<<>>, <<NewToken(1, "t1", "r1", None)>>}

\* A provider hands over a login attempt with the e-mail addresses it knows.
ConstructSignup ==
    /\ last = NoCall
    /\ \E i \in Attempts, provider \in Providers, uid \in Uids,
          username \in Usernames, token \in SignupTokens,
          email_addresses \in SignupEmails :
          init(i, [pk |-> None, username |-> username],
               NewAccount(provider, uid, "e1"), token, <<email_addresses>>)
    /\ UNCHANGED stashVars

\* What a call on the aggregate's state hands back, with what it was called
\* on: the operation, the aggregate (its index and its value on entry), the
\* request and the value returned.
StateCall(op, who, entry, request, value) ==
    [op |-> op, who |-> who, entry |-> entry, request |-> request,
     value |-> value]

\* A view keeps the state of the request on the aggregate:
\* sociallogin.state = SocialLogin.state_from_request(request)
StateFromRequest ==
    /\ last = NoCall
    /\ \E i \in Attempts, request \in Requests :
          LET state == state_from_request(request)
          IN  /\ sl[i].live
              /\ sl' = [sl EXCEPT ![i].state = state]
              /\ last' = StateCall("state_from_request", i, sl[i], request, state)
    /\ UNCHANGED <<users, accounts, tokens, clock, settings, defaults, previous>>
    /\ UNCHANGED stashVars

GetRedirectUrl ==
    /\ last = NoCall
    /\ \E i \in Attempts, request \in Requests :
          /\ sl[i].live
          /\ last' = StateCall("get_redirect_url", i, sl[i], request,
                               get_redirect_url(sl[i], request))
    /\ UNCHANGED <<users, accounts, tokens, sl, clock, settings, defaults, previous>>
    /\ UNCHANGED stashVars

\* The aggregate is serialized at the end of a request and the next request
\* goes on with what deserialize builds from that.
Restore ==
    /\ last = NoCall
    /\ \E i \in Attempts :
          LET data == serialize(sl[i])
          IN  /\ sl[i].live
              /\ sl' = [sl EXCEPT ![i] = deserialize(data)]
              /\ last' = StateCall("deserialize", i, sl[i], RequestOf(1), data)
    /\ UNCHANGED <<users, accounts, tokens, clock, settings, defaults, previous>>
    /\ UNCHANGED stashVars

\* The session of the replay specification: one browser session in which
\* login attempts follow each other.
ReplaySession == 1

\* The calls on the session that came before the latest one: the two latest.
KeepCall(history, call) ==
    IF Len(history) < 2 THEN Append(history, call) ELSE <<history[2], call>>

\* The frame of a stash operation in the replay specification: the call that
\* was the latest joins the history.
ReplayFrame ==
    /\ previous' = KeepCall(previous, lastCall[ReplaySession])
    /\ UNCHANGED <<users, accounts, tokens, sl, clock, settings, defaults, last>>

\* A login attempt starts: the view stashes the state before the redirect.
StashStateAgain ==
    /\ \E request \in StashRequests, verifier \in Verifiers :
          stash_state(ReplaySession, request, verifier)
    /\ ReplayFrame

\* The callback of a login attempt arrives with the verifier it was given.
VerifyAgain ==
    /\ \E verifier \in Verifiers :
          verify_and_unstash_state(ReplaySession, verifier)
    /\ ReplayFrame

UnstashAgain ==
    /\ unstash_state(ReplaySession)
    /\ ReplayFrame

\* The tokens a provider of the lifecycle specification hands over: none, one
\* of application 1, one bound to no application.
LifecycleTokens ==
    {<<>>, <<NewToken(1, "t1", "r1", None)>>, <<NewToken(None, "t1", "", None)>>}

\* A provider hands over a login attempt of one of two identities.
ConstructLifecycle ==
    /\ last = NoCall
    /\ \E i \in Attempts, provider \in Providers, username \in Usernames,
          token \in LifecycleTokens :
          init(i, [pk |-> None, username |-> username],
               NewAccount(provider, "u1", "e1"), token, <<>>)
    /\ UNCHANGED stashVars

InitStash ==
    /\ session = [s \in Sessions |-> EmptySession]
    /\ lastCall = [s \in Sessions |-> Call("none", "", "ok", NoState, 0)]

InitDb ==
    /\ users = <<>>
    /\ accounts = <<>>
    /\ tokens = <<>>
    /\ sl = [i \in Logins |-> NoLogin]
    /\ clock = 1
    /\ last = NoCall
    /\ previous = NoPrevious
    /\ defaults = [email_addresses |-> <<>>]

\* STORE_TOKENS is a deployment's choice; without tokens it decides nothing.
Init == InitStash /\ InitDb /\ settings = [STORE_TOKENS |-> TRUE]

InitToken == InitStash /\ InitDb /\ settings \in [STORE_TOKENS : BOOLEAN]

Next == Construct \/ Lookup \/ Save \/ Connect \/ CreateUser \/ Tick \/ Return

Spec == Init /\ [][Next]_vars

TokenNext == ConstructWithToken \/ Lookup \/ Save \/ Connect \/ Return

TokenSpec == InitToken /\ [][TokenNext]_vars

ReloginNext == ConstructRelogin \/ Lookup \/ Save \/ Tick \/ ReturnKept

ReloginSpec == InitToken /\ [][ReloginNext]_vars

SignupNext == ConstructSignup \/ Save \/ Connect \/ CreateUser \/ Return

SignupSpec == InitToken /\ [][SignupNext]_vars

StateNext ==
    ConstructSignup \/ StateFromRequest \/ GetRedirectUrl \/ Restore \/ Return

StateSpec == Init /\ [][StateNext]_vars

InitReplay ==
    /\ InitStash
    /\ users = <<>>
    /\ accounts = <<>>
    /\ tokens = <<>>
    /\ sl = [i \in Logins |-> NoLogin]
    /\ clock = 1
    /\ last = NoCall
    /\ settings = [STORE_TOKENS |-> TRUE]
    /\ defaults = [email_addresses |-> <<>>]
    /\ previous = <<>>

ReplayNext == StashStateAgain \/ VerifyAgain \/ UnstashAgain

ReplaySpec == InitReplay /\ [][ReplayNext]_vars

LifecycleNext ==
    ConstructLifecycle \/ Lookup \/ Save \/ Connect \/ Restore \/ Return

LifecycleSpec == InitToken /\ [][LifecycleNext]_vars

StashNext == StashState \/ UnstashState \/ VerifyAndUnstashState

StashSpec == Init /\ [][StashNext]_vars

-----------------------------------------------------------------------------
(* Properties of the handshake state stash (StashSpec).                    *)

Stashed(s) == StateKey \in DOMAIN session[s]

\* The step is a call of `op` on session s.
Called(s, op) == lastCall'[s] # lastCall[s] /\ lastCall'[s].op = op

\* C1: when stash_state returned verifier v on a session and no other stash
\* operation ran on that session since, verify_and_unstash_state with v
\* succeeds, returns the state map that stash_state built and removes the
\* stash; a verify_and_unstash_state that directly follows a successful one
\* fails with PermissionDenied, whatever its verifier.
C1_VerifyAfterStash ==
    [][\A s \in Sessions :
          Called(s, "verify") =>
             /\ (lastCall[s].op = "stash"
                    /\ lastCall'[s].verifier = lastCall[s].verifier)
                => /\ lastCall'[s].outcome = "ok"
                   /\ lastCall'[s].state = lastCall[s].state
                   /\ StateKey \notin DOMAIN session'[s]
             /\ (lastCall[s].op = "verify" /\ lastCall[s].outcome = "ok")
                => lastCall'[s].outcome = "PermissionDenied"]_vars

\* A verification has succeeded and left the session without a stash.
C1_Witness ==
    \E s \in Sessions :
       /\ lastCall[s].op = "verify"
       /\ lastCall[s].outcome = "ok"
       /\ lastCall[s].state # NoState
       /\ ~Stashed(s)

\* C2: verify_and_unstash_state returns a state map exactly when a state is
\* stashed in the session and the verifier given equals the stashed one, and
\* then it returns the stashed map; otherwise it fails with PermissionDenied.
C2_VerifyOnlyOnMatch ==
    [][\A s \in Sessions :
          Called(s, "verify") =>
             IF Stashed(s) /\ session[s][StateKey][2] = lastCall'[s].verifier
             THEN /\ lastCall'[s].outcome = "ok"
                  /\ lastCall'[s].state = session[s][StateKey][1]
             ELSE /\ lastCall'[s].outcome = "PermissionDenied"
                  /\ lastCall'[s].state = NoState]_vars

\* A verification was refused.
C2_Witness ==
    \E s \in Sessions :
       /\ lastCall[s].op = "verify"
       /\ lastCall[s].outcome = "PermissionDenied"
       /\ lastCall[s].state = NoState

\* C3: unstash_state removes the stashed entry and returns its state map,
\* whatever the verifier; with nothing stashed it fails with PermissionDenied
\* and leaves the session alone.  After a stash_state the first unstash_state
\* succeeds with the map stash_state built and the next one fails.
C3_UnstashPops ==
    [][\A s \in Sessions :
          Called(s, "unstash") =>
             /\ IF Stashed(s)
                THEN /\ lastCall'[s].outcome = "ok"
                     /\ lastCall'[s].state = session[s][StateKey][1]
                     /\ StateKey \notin DOMAIN session'[s]
                ELSE /\ lastCall'[s].outcome = "PermissionDenied"
                     /\ session'[s] = session[s]
             /\ lastCall[s].op = "stash"
                => /\ lastCall'[s].outcome = "ok"
                   /\ lastCall'[s].state = lastCall[s].state
             /\ (lastCall[s].op = "unstash" /\ lastCall[s].outcome = "ok")
                => lastCall'[s].outcome = "PermissionDenied"]_vars

\* An unstash_state has returned a state map and emptied the session.
C3_Witness ==
    \E s \in Sessions :
       /\ lastCall[s].op = "unstash"
       /\ lastCall[s].outcome = "ok"
       /\ lastCall[s].state # NoState
       /\ ~Stashed(s)

-----------------------------------------------------------------------------
(* Properties of the persistence model and of SocialLogin.                 *)

\* The step is a call of one of `ops`; last' tells the aggregate and the site.
Op(ops) == last = NoCall /\ last'.op \in ops

\* The application lookup and save resolve for aggregate i on a site.
Resolved(i, site) == get_current(sl[i].account.provider, RequestOf(site))

\* The persisted accounts of the resolved application with the uid of aggregate i.
Matching(i, site) ==
    {a \in DOMAIN accounts : /\ accounts[a].app = Resolved(i, site).app
                             /\ accounts[a].uid = sl[i].account.uid}

\* lookup's precondition holds, the application resolves and no account matches.
LookupMisses(i, site) ==
    /\ ~is_existing(sl[i])
    /\ Resolved(i, site).status = "ok"
    /\ Matching(i, site) = {}

\* lookup's precondition holds, the application resolves and an account matches.
LookupFinds(i, site) ==
    /\ ~is_existing(sl[i])
    /\ Resolved(i, site).status = "ok"
    /\ Matching(i, site) # {}

TheAccount(i, site) == CHOOSE a \in Matching(i, site) : TRUE

\* Aggregate i carries a token that lookup and save are to persist.
CarriesToken(i) ==
    /\ settings.STORE_TOKENS
    /\ Len(sl[i].token) > 0
    /\ sl[i].token[1].pk = None

\* The persisted tokens of the found account and the app of the carried token.
StoredTokens(i, site) ==
    {t \in DOMAIN tokens : /\ tokens[t].account = TheAccount(i, site)
                           /\ tokens[t].app = sl[i].token[1].app}

\* lookup is on its token update path.
LookupUpdatesToken(i, site) ==
    LookupFinds(i, site) /\ CarriesToken(i) /\ StoredTokens(i, site) # {}

TheToken(i, site) == CHOOSE t \in StoredTokens(i, site) : TRUE

UniqueAccounts(table) ==
    \A a, b \in DOMAIN table :
       (table[a].app = table[b].app /\ table[a].uid = table[b].uid) => a = b

UniqueTokens(table) ==
    \A t, u \in DOMAIN table :
       (table[t].app = table[u].app /\ table[t].account = table[u].account)
          => t = u

\* C4: no two persisted accounts share (app, uid), whatever save, connect and
\* lookup did; a save or connect that would insert an account whose (app, uid)
\* is already persisted fails with IntegrityError and leaves the table alone.
C4_AccountsUnique ==
    [][/\ UniqueAccounts(accounts')
       /\ Op({"save", "connect"}) =>
             LET i == last'.who
                 r == Resolved(i, last'.site)
             IN  (/\ ~is_existing(sl[i])
                  /\ r.status = "ok"
                  /\ \E a \in DOMAIN accounts :
                        /\ accounts[a].app = r.app
                        /\ accounts[a].uid = sl[i].account.uid)
                 => /\ last'.result = "IntegrityError"
                    /\ accounts' = accounts]_vars

\* Two accounts are persisted and a save was refused for its (app, uid).
C4_Witness ==
    /\ last.op \in {"save", "connect"}
    /\ last.result = "IntegrityError"
    /\ Len(accounts) = 2

\* C5: when lookup updates a stored token, the stored secret becomes the
\* carried secret if that is not empty and stays what it was if it is empty.
C5_SecretPreserved ==
    [][Op({"lookup"}) =>
          LET i == last'.who
              site == last'.site
          IN  LookupUpdatesToken(i, site) =>
                 LET t == TheToken(i, site)
                     carried == sl[i].token[1].token_secret
                 IN  /\ last'.result = "ok"
                     /\ tokens'[t].token_secret =
                           IF carried # "" THEN carried
                           ELSE tokens[t].token_secret]_vars

\* A lookup that carried an empty secret has left a stored secret in place.
C5_Witness ==
    /\ last.op = "lookup"
    /\ last.result = "ok"
    /\ Len(last.entry.token) > 0
    /\ last.entry.token[1].token_secret = ""
    /\ Len(sl[last.who].token) > 0
    /\ sl[last.who].token[1].pk # None
    /\ tokens[sl[last.who].token[1].pk].token_secret # ""

\* C6: no two persisted tokens share (app, account); a lookup that finds the
\* account and a stored token for it updates that row in place, and one that
\* finds the account and no stored token appends the carried token, bound to
\* the found account.
C6_TokensUnique ==
    [][/\ UniqueTokens(tokens')
       /\ Op({"lookup"}) =>
             LET i == last'.who
                 site == last'.site
             IN  (LookupFinds(i, site) /\ CarriesToken(i)) =>
                    IF StoredTokens(i, site) # {}
                    THEN /\ last'.result = "ok"
                         /\ DOMAIN tokens' = DOMAIN tokens
                         /\ \A u \in DOMAIN tokens \ {TheToken(i, site)} :
                               tokens'[u] = tokens[u]
                         /\ tokens'[TheToken(i, site)].account = TheAccount(i, site)
                         /\ tokens'[TheToken(i, site)].app = sl[i].token[1].app
                    ELSE tokens' =
                            Append(tokens,
                                   [sl[i].token[1] EXCEPT
                                       !.account = TheAccount(i, site),
                                       !.pk = Len(tokens) + 1])]_vars

\* A lookup has updated one of two stored tokens.
C6_Witness ==
    /\ last.op = "lookup"
    /\ last.result = "ok"
    /\ Len(last.entry.token) > 0
    /\ Len(tokens) = 2
    /\ sl[last.who].token = <<tokens[1]>>

\* C7: when lookup updates a stored token, the stored access token and the
\* stored expiry become the carried ones, None included, and the aggregate
\* then holds the stored row.
C7_TokenReplaced ==
    [][Op({"lookup"}) =>
          LET i == last'.who
              site == last'.site
          IN  LookupUpdatesToken(i, site) =>
                 LET t == TheToken(i, site)
                 IN  /\ tokens'[t].token = sl[i].token[1].token
                     /\ tokens'[t].expires_at = sl[i].token[1].expires_at
                     /\ tokens'[t].pk = t
                     /\ sl'[i].token = <<tokens'[t]>>]_vars

\* A lookup that carried no expiry has updated a stored token.
C7_Witness ==
    /\ last.op = "lookup"
    /\ last.result = "ok"
    /\ Len(last.entry.token) > 0
    /\ last.entry.token[1].expires_at = None
    /\ last.entry.token[1].token_secret = ""
    /\ Len(tokens) > 0
    /\ sl[last.who].token = <<tokens[1]>>
    /\ tokens[1].token_secret # ""
    /\ tokens[1].expires_at = None

\* C8: when lookup is called on a new aggregate, the application resolves and
\* no account is persisted for (app, uid), lookup returns without error and
\* changes nothing: not the aggregate, and no user, account or token row.
C8_LookupMissIsNoOp ==
    [][Op({"lookup"}) =>
          (LookupMisses(last'.who, last'.site) =>
              /\ last'.result = "ok"
              /\ sl' = sl
              /\ ~is_existing(sl'[last'.who])
              /\ users' = users
              /\ accounts' = accounts
              /\ tokens' = tokens)]_vars

\* A lookup that carried a token, with token persistence on, found no account.
C8_Witness ==
    /\ last.op = "lookup"
    /\ last.result = "ok"
    /\ settings.STORE_TOKENS
    /\ Len(sl[last.who].token) > 0
    /\ ~is_existing(sl[last.who])
    /\ sl[last.who] = last.entry
    /\ tokens = <<>>

\* C9: when lookup finds the account, the stored account takes the
\* aggregate's extra_data, the aggregate holds the stored account and its
\* owner instead of the candidate user, and is_existing is true.
C9_LookupResolves ==
    [][Op({"lookup"}) =>
          LET i == last'.who
              site == last'.site
          IN  LookupFinds(i, site) =>
                 LET a == TheAccount(i, site)
                 IN  /\ accounts'[a].extra_data = sl[i].account.extra_data
                     /\ sl'[i].account = accounts'[a]
                     /\ sl'[i].account.pk = a
                     /\ sl'[i].user.pk = accounts[a].user
                     /\ sl'[i].user.username = users[accounts[a].user].username
                     /\ is_existing(sl'[i])]_vars

\* A lookup has replaced the candidate user and account by the stored ones.
C9_Witness ==
    /\ last.op = "lookup"
    /\ last.result = "ok"
    /\ last.entry.user.pk = None
    /\ is_existing(sl[last.who])
    /\ sl[last.who].user.pk = accounts[sl[last.who].account.pk].user
    /\ accounts[sl[last.who].account.pk].extra_data = last.entry.account.extra_data

\* The step is a lookup by an aggregate with the same account and token data
\* as the lookup before it, on the same site, and that lookup returned.
SecondLookup ==
    /\ Op({"lookup"})
    /\ previous.call.op = "lookup"
    /\ previous.call.result = "ok"
    /\ previous.call.site = last'.site
    /\ previous.call.entry.account.provider = sl[last'.who].account.provider
    /\ previous.call.entry.account.uid = sl[last'.who].account.uid
    /\ previous.call.entry.account.extra_data = sl[last'.who].account.extra_data
    /\ previous.call.entry.token = sl[last'.who].token
    /\ ~is_existing(sl[last'.who])

\* The second lookup returns, holds the account the first one held, and adds
\* no account, token or user.
SameRecord ==
    /\ last'.result = "ok"
    /\ sl'[last'.who].account.pk = previous.account
    /\ DOMAIN accounts' = DOMAIN accounts
    /\ tokens' = tokens
    /\ users' = users

\* C10 as amended: a lookup that repeats the lookup before it, with the same
\* account and token data, yields the same account record and leaves the
\* persisted accounts and tokens as the first lookup left them, except for
\* the last_login stamp of the found account.
C10_LookupIdempotent ==
    [][SecondLookup =>
          /\ SameRecord
          /\ \A a \in DOMAIN accounts :
                [accounts'[a] EXCEPT !.last_login = accounts[a].last_login]
                   = accounts[a]]_vars

\* C10 as stated: the persisted account contents after the second lookup
\* equal those after the first.
C10_AsStated ==
    [][SecondLookup => (SameRecord /\ accounts' = accounts)]_vars

\* A second lookup with the data of the first has found the account again and
\* updated the token the first one had stored.
C10_Witness ==
    /\ last.op = "lookup"
    /\ last.result = "ok"
    /\ previous.call.op = "lookup"
    /\ previous.call.site = last.site
    /\ previous.call.entry.account = last.entry.account
    /\ previous.call.entry.token = last.entry.token
    /\ Len(last.entry.token) > 0
    /\ is_existing(sl[last.who])
    /\ sl[last.who].account.pk = previous.account
    /\ Len(tokens) = 1
    /\ sl[last.who].token = <<tokens[1]>>

\* C11: save, connect and lookup called on an aggregate whose account has a
\* primary key fail with AssertionError and write no user, account or token row.
C11_ExistingFaults ==
    [][(Op({"save", "connect", "lookup"}) /\ sl[last'.who].account.pk # None) =>
          /\ last'.result = "AssertionError"
          /\ users' = users
          /\ accounts' = accounts
          /\ tokens' = tokens]_vars

\* A connect was refused on an aggregate that a save had persisted.
C11_Witness ==
    /\ last.op = "connect"
    /\ last.result = "AssertionError"
    /\ last.entry.account.pk # None
    /\ last.entry.account.pk \in DOMAIN accounts

\* The calls of the given name among the calls an operation made.
CallsOf(calls, name) == {k \in DOMAIN calls : calls[k].call = name}

\* Every persisted account belongs to a persisted user and every persisted
\* token to a persisted account.
References(us, as, ts) ==
    /\ \A a \in DOMAIN as : as[a].user \in DOMAIN us
    /\ \A t \in DOMAIN ts : ts[t].account \in DOMAIN as

\* C12: a save or connect that succeeds on a new aggregate saves the user, then
\* the account, then the token if one is carried and tokens are stored; the
\* account row it adds is owned by the aggregate's user and bound to the
\* application resolved for (account.provider, site), and the token row it
\* adds references that account.  After every step, a failed save included,
\* every account's user and every token's account is persisted.
C12_SaveOrder ==
    [][/\ References(users', accounts', tokens')
       /\ (Op({"save", "connect"}) /\ last'.result = "ok") =>
             LET i == last'.who
                 calls == last'.calls
                 apk == Len(accounts) + 1
                 tpk == Len(tokens) + 1
                 withToken == settings.STORE_TOKENS /\ Len(sl[i].token) > 0
             IN  /\ ~is_existing(sl[i])
                 /\ Len(calls) >= 2
                 /\ calls[1] = Effect("user.save", sl'[i].user.pk, <<>>)
                 /\ calls[2] = Effect("account.save", apk, <<>>)
                 /\ sl'[i].user.pk \in DOMAIN users'
                 /\ DOMAIN accounts' = DOMAIN accounts \cup {apk}
                 /\ accounts'[apk].user = sl'[i].user.pk
                 /\ accounts'[apk].app = Resolved(i, last'.site).app
                 /\ accounts'[apk].uid = sl[i].account.uid
                 /\ sl'[i].account = accounts'[apk]
                 /\ IF withToken
                    THEN /\ Len(calls) >= 3
                         /\ calls[3] = Effect("token.save", tpk, <<>>)
                         /\ DOMAIN tokens' = DOMAIN tokens \cup {tpk}
                         /\ tokens'[tpk].account = apk
                    ELSE /\ tokens' = tokens
                         /\ CallsOf(calls, "token.save") = {}]_vars

\* A save has inserted a user, an account of the application of its site and
\* a token, in that order.
C12_Witness ==
    /\ last.op = "save"
    /\ last.result = "ok"
    /\ last.entry.user.pk = None
    /\ Len(last.calls) >= 3
    /\ last.calls[1].call = "user.save"
    /\ last.calls[2].call = "account.save"
    /\ last.calls[3].call = "token.save"
    /\ tokens[last.calls[3].pk].account = last.calls[2].pk
    /\ accounts[last.calls[2].pk].user = last.calls[1].pk
    /\ accounts[last.calls[2].pk].app = 2

\* C13: a save that succeeds and is not connect-style calls setup_user_email
\* once, as its last call, after the saves of user, account and token, with
\* the aggregate's user and e-mail list; connect, save with connect=True and
\* a save that raises do not call it.
C13_EmailSetup ==
    [][Op({"save", "connect"}) =>
          LET i == last'.who
              calls == last'.calls
              setups == CallsOf(calls, "setup_user_email")
          IN  /\ last'.op = "connect" => last'.connect
              /\ IF last'.result = "ok" /\ ~last'.connect
                 THEN /\ setups = {Len(calls)}
                      /\ calls[Len(calls)] =
                            Effect("setup_user_email", sl'[i].user.pk,
                                   sl[i].email_addresses)
                      /\ sl'[i].user.pk \in DOMAIN users'
                      /\ Len(calls) >= 3
                 ELSE setups = {}]_vars

\* A save has handed two e-mail addresses to setup_user_email after saving
\* user, account and token.
C13_Witness ==
    /\ last.op = "save"
    /\ ~last.connect
    /\ last.result = "ok"
    /\ Len(last.calls) = 4
    /\ last.calls[4].call = "setup_user_email"
    /\ Len(last.calls[4].emails) = 2
    /\ last.calls[4].pk = sl[last.who].user.pk

\* C14: a connect that succeeds on a new aggregate puts the given, persisted
\* user in the place of the candidate user and saves: the account row it adds
\* carries the aggregate's provider and uid and is owned by the given user,
\* the aggregate holds the given user, and the user table gains no row.
C14_ConnectBindsGivenUser ==
    [][(Op({"connect"}) /\ last'.result = "ok") =>
          LET i == last'.who
              given == last'.user
              apk == Len(accounts) + 1
          IN  /\ given \in DOMAIN users
              /\ last'.entry = sl[i]
              /\ users' = users
              /\ DOMAIN accounts' = DOMAIN accounts \cup {apk}
              /\ \A a \in DOMAIN accounts : accounts'[a] = accounts[a]
              /\ accounts'[apk].user = given
              /\ accounts'[apk].provider = sl[i].account.provider
              /\ accounts'[apk].uid = sl[i].account.uid
              /\ sl'[i].user.pk = given
              /\ sl'[i].account = accounts'[apk]]_vars

\* A connect has bound the account of an aggregate with an unsaved candidate
\* user to the second of two persisted users, and two users are persisted still.
C14_Witness ==
    /\ last.op = "connect"
    /\ last.result = "ok"
    /\ last.entry.user.pk = None
    /\ last.user = 2
    /\ Len(users) = 2
    /\ is_existing(sl[last.who])
    /\ accounts[sl[last.who].account.pk].user = 2

ParamOr(request, name, default) ==
    IF name \in DOMAIN request.params THEN request.params[name] ELSE default

Configured(provider, site) ==
    {a \in DOMAIN SocialApp : /\ SocialApp[a].provider = provider
                              /\ site \in SocialApp[a].sites}

\* C16 as stated: when no application is configured for (account.provider,
\* site), lookup on a new aggregate fails with the application's DoesNotExist
\* and persists nothing.
C16_AsStated ==
    [][(Op({"lookup"})
          /\ sl[last'.who].account.pk = None
          /\ Configured(sl[last'.who].account.provider, last'.site) = {}) =>
          /\ last'.result = "DoesNotExist"
          /\ users' = users
          /\ accounts' = accounts
          /\ tokens' = tokens]_vars

\* C17 as amended: on a new aggregate, save and connect get from get_current
\* the one application configured for (provider, site) when there is exactly
\* one, and bind the account to it; they fail with DoesNotExist when there is
\* none and with MultipleObjectsReturned when there are several, and then
\* write nothing.
C17_ResolveCurrent ==
    [][(Op({"save", "connect"}) /\ sl[last'.who].account.pk = None) =>
          LET i == last'.who
              found == Configured(sl[i].account.provider, last'.site)
              failed == /\ users' = users
                        /\ accounts' = accounts
                        /\ tokens' = tokens
          IN  /\ Cardinality(found) = 1 =>
                    /\ last'.result \in {"ok", "IntegrityError"}
                    /\ sl'[i].account.app \in found
                    /\ Resolved(i, last'.site) =
                          [status |-> "ok", app |-> sl'[i].account.app]
              /\ found = {} => (last'.result = "DoesNotExist" /\ failed)
              /\ Cardinality(found) > 1 =>
                    (last'.result = "MultipleObjectsReturned" /\ failed)]_vars

\* C17 as stated: save and connect fail with DoesNotExist (not found) both
\* when no application and when several applications are configured for
\* (provider, site).
C17_AsStated ==
    [][(Op({"save", "connect"}) /\ sl[last'.who].account.pk = None) =>
          LET found == Configured(sl[last'.who].account.provider, last'.site)
          IN  Cardinality(found) # 1 => last'.result = "DoesNotExist"]_vars

\* A save was refused because two applications are configured for the
\* provider on the site.
C17_Witness ==
    /\ last.op = "save"
    /\ last.result = "MultipleObjectsReturned"
    /\ Cardinality(Configured(last.entry.account.provider, last.site)) = 2
    /\ accounts = <<>>

\* The step is a save of the aggregate that the lookup before it, on the same
\* site, left as it was: the first login of an identity.
SaveAfterMiss ==
    /\ Op({"save"})
    /\ previous.call.op = "lookup"
    /\ previous.call.result = "ok"
    /\ previous.call.site = last'.site
    /\ previous.call.entry = sl[last'.who]
    /\ previous.account = None

\* The persisted accounts with the application and uid of account row a.
SameIdentity(table, a) ==
    {b \in DOMAIN table : table[b].app = table[a].app /\ table[b].uid = table[a].uid}

\* C18: a lookup for an identity with no account changes nothing; the save
\* that follows it inserts the user, an account bound to that user and to the
\* application resolved for the site, and the token when one is carried and
\* tokens are stored; a later lookup by another aggregate with that uid finds
\* the account, stores its own extra_data on it and adds no account: one
\* account has that (application, uid).
C18_FirstLoginThenRelogin ==
    [][/\ (Op({"lookup"}) /\ LookupMisses(last'.who, last'.site)) =>
             /\ last'.result = "ok"
             /\ <<users', accounts', tokens', sl'>> = <<users, accounts, tokens, sl>>
       /\ SaveAfterMiss =>
             LET i == last'.who
                 upk == Len(users) + 1
                 apk == Len(accounts) + 1
                 tpk == Len(tokens) + 1
             IN  /\ last'.result = "ok"
                 /\ users' = Append(users, [username |-> sl[i].user.username])
                 /\ DOMAIN accounts' = DOMAIN accounts \cup {apk}
                 /\ accounts'[apk].user = upk
                 /\ accounts'[apk].uid = sl[i].account.uid
                 /\ accounts'[apk].extra_data = sl[i].account.extra_data
                 /\ Resolved(i, last'.site).status = "ok"
                 /\ accounts'[apk].app = Resolved(i, last'.site).app
                 /\ SameIdentity(accounts', apk) = {apk}
                 /\ IF settings.STORE_TOKENS /\ Len(sl[i].token) > 0
                    THEN /\ DOMAIN tokens' = DOMAIN tokens \cup {tpk}
                         /\ tokens'[tpk] = [sl[i].token[1] EXCEPT !.pk = tpk,
                                                                  !.account = apk]
                    ELSE tokens' = tokens
       /\ (Op({"lookup"}) /\ LookupFinds(last'.who, last'.site)) =>
             LET i == last'.who
                 a == TheAccount(i, last'.site)
             IN  /\ last'.result = "ok"
                 /\ DOMAIN accounts' = DOMAIN accounts
                 /\ users' = users
                 /\ accounts'[a].extra_data = sl[i].account.extra_data
                 /\ accounts'[a].uid = sl[i].account.uid
                 /\ sl'[i].account.pk = a
                 /\ SameIdentity(accounts', a) = {a}]_vars

\* After a first login that stored user, account and token, the lookup of a
\* second login with other extra_data has found the account and stored its
\* extra_data on it; one account is persisted.
C18_Witness ==
    /\ last.op = "lookup"
    /\ last.result = "ok"
    /\ last.entry.account.pk = None
    /\ last.entry.account.extra_data = "e2"
    /\ Len(accounts) = 1
    /\ Len(tokens) = 1
    /\ Len(users) = 1
    /\ sl[last.who].account = accounts[1]
    /\ accounts[1].extra_data = "e2"
    /\ accounts[1].app = 1
    /\ accounts[1].user = 1
    /\ tokens[1].account = 1

\* C19: a token row is added or changed only by a save, connect or lookup of
\* an aggregate that carries a token while STORE_TOKENS is on; while it is
\* off the token table stays empty, and a save that succeeds still inserts
\* the account and saves the user.
C19_TokensOnlyWhenStored ==
    [][/\ tokens' # tokens =>
             /\ settings.STORE_TOKENS
             /\ Op({"save", "connect", "lookup"})
             /\ Len(sl[last'.who].token) > 0
       /\ ~settings.STORE_TOKENS =>
             /\ tokens' = <<>>
             /\ (Op({"save", "connect"}) /\ last'.result = "ok") =>
                   /\ Len(accounts') = Len(accounts) + 1
                   /\ accounts'[Len(accounts')].user = sl'[last'.who].user.pk
                   /\ sl'[last'.who].user.pk \in DOMAIN users'
                   /\ CallsOf(last'.calls, "token.save") = {}
             /\ (Op({"lookup"}) /\ LookupFinds(last'.who, last'.site)) =>
                   /\ last'.result = "ok"
                   /\ sl'[last'.who].token = sl[last'.who].token
                   /\ accounts'[TheAccount(last'.who, last'.site)].extra_data
                         = sl[last'.who].account.extra_data]_vars

\* With STORE_TOKENS off, a lookup by an aggregate that carries a token has
\* found the account that a save had stored, and no token is persisted.
C19_Witness ==
    /\ ~settings.STORE_TOKENS
    /\ last.op = "lookup"
    /\ last.result = "ok"
    /\ Len(last.entry.token) > 0
    /\ is_existing(sl[last.who])
    /\ Len(accounts) >= 1
    /\ tokens = <<>>

-----------------------------------------------------------------------------
(* Properties of the stash over a sequence of calls (ReplaySpec).          *)

\* The call before the latest one on the session.
CallBefore == previous[Len(previous)]

\* C24: a verify_and_unstash_state whose verifier differs from the stashed one
\* fails and removes the stash all the same, so the call that follows it fails
\* too, also with the verifier that stash_state had returned.
C24_MismatchConsumes ==
    [][Called(ReplaySession, "verify") =>
          LET s == ReplaySession
          IN  /\ (Stashed(s) /\ session[s][StateKey][2] # lastCall'[s].verifier)
                 => /\ lastCall'[s].outcome = "PermissionDenied"
                    /\ ~(StateKey \in DOMAIN session'[s])
              /\ lastCall[s].op = "verify"
                 => lastCall'[s].outcome = "PermissionDenied"
              /\ (/\ lastCall[s].op = "verify"
                  /\ Len(previous) > 0
                  /\ CallBefore.op = "stash"
                  /\ CallBefore.verifier = lastCall'[s].verifier
                  /\ lastCall[s].verifier # CallBefore.verifier)
                 => /\ lastCall[s].outcome = "PermissionDenied"
                    /\ lastCall'[s].outcome = "PermissionDenied"]_vars

\* After a stash that returned a verifier, a verification with another
\* verifier was refused, and then one with the verifier returned was refused.
C24_Witness ==
    /\ Len(previous) = 2
    /\ previous[1].op = "stash"
    /\ previous[2].op = "verify"
    /\ previous[2].verifier # previous[1].verifier
    /\ previous[2].outcome = "PermissionDenied"
    /\ lastCall[ReplaySession].op = "verify"
    /\ lastCall[ReplaySession].verifier = previous[1].verifier
    /\ lastCall[ReplaySession].outcome = "PermissionDenied"

\* C25: stash_state leaves the session with the one entry it built, whatever
\* was stashed before; after stash A and stash B with different verifiers a
\* verification with the verifier of A fails, and of the two verifications
\* that follow the two stashes at most one succeeds.
C25_OneStashPerSession ==
    [][LET s == ReplaySession
       IN  /\ Called(s, "stash") =>
                 /\ DOMAIN session'[s] = {StateKey}
                 /\ session'[s][StateKey] =
                       <<lastCall'[s].state, lastCall'[s].verifier>>
           /\ (/\ Called(s, "verify")
               /\ lastCall[s].op = "stash"
               /\ Len(previous) > 0
               /\ CallBefore.op = "stash"
               /\ CallBefore.verifier # lastCall[s].verifier
               /\ lastCall'[s].verifier = CallBefore.verifier)
              => lastCall'[s].outcome = "PermissionDenied"
           /\ (/\ Called(s, "verify")
               /\ lastCall[s].op = "verify"
               /\ Len(previous) = 2
               /\ previous[1].op = "stash"
               /\ previous[2].op = "stash")
              => ~(lastCall[s].outcome = "ok" /\ lastCall'[s].outcome = "ok")]_vars

\* Two attempts have stashed different verifiers and the callback of the
\* first one was refused.
C25_Witness ==
    /\ Len(previous) = 2
    /\ previous[1].op = "stash"
    /\ previous[2].op = "stash"
    /\ previous[1].verifier # previous[2].verifier
    /\ lastCall[ReplaySession].op = "verify"
    /\ lastCall[ReplaySession].verifier = previous[1].verifier
    /\ lastCall[ReplaySession].outcome = "PermissionDenied"
    /\ ~Stashed(ReplaySession)

-----------------------------------------------------------------------------
(* Properties of the aggregate's lifecycle and of failing saves.           *)

\* The step constructs the aggregate of attempt i: __init__ hands nothing back.
Constructed(i) == last = NoCall /\ last' = NoCall /\ sl'[i] # sl[i]

\* The account of aggregate i is persisted after the step.
ExistingAfter(i) == sl'[i].account.pk # None

\* C21 as amended: a constructed aggregate is new, and deserialize keeps an
\* aggregate new or existing as it was; a lookup, save or connect on a new
\* aggregate makes it existing exactly when lookup matches an account or save
\* persists the account, also when the call then fails at its token step;
\* a call that fails before that leaves it new; an existing aggregate keeps
\* its account under every later operation.
C21_Lifecycle ==
    [][\A i \in Attempts :
          /\ Constructed(i) => ~ExistingAfter(i)
          /\ (Op({"deserialize"}) /\ last'.who = i) =>
                (ExistingAfter(i) <=> sl[i].account.pk # None)
          /\ (Op({"lookup", "save", "connect"}) /\ last'.who = i) =>
                IF sl[i].account.pk # None
                THEN sl'[i].account = sl[i].account
                ELSE /\ ExistingAfter(i) <=>
                           CallsOf(last'.calls, "account.save") # {}
                     /\ last'.op = "lookup" =>
                           (ExistingAfter(i) <=> LookupFinds(i, last'.site))
                     /\ last'.op \in {"save", "connect"} =>
                           (ExistingAfter(i) <=>
                               /\ Resolved(i, last'.site).status = "ok"
                               /\ Matching(i, last'.site) = {})
                     /\ ExistingAfter(i) =>
                           /\ sl'[i].account.pk \in DOMAIN accounts'
                           /\ accounts'[sl'[i].account.pk].uid = sl[i].account.uid
                     /\ last'.result = "ok" =>
                           (ExistingAfter(i) \/ last'.op = "lookup")]_vars

\* C21 as stated: a lookup, save or connect that fails on a new aggregate
\* leaves it new.
C21_AsStated ==
    [][\A i \in Attempts :
          (/\ Op({"lookup", "save", "connect"})
           /\ last'.who = i
           /\ sl[i].account.pk = None
           /\ last'.result # "ok") => ~ExistingAfter(i)]_vars

\* A save of a new aggregate has failed at its token and the aggregate holds
\* the account the save had persisted.
C21_Witness ==
    /\ last.op = "save"
    /\ last.result = "IntegrityError"
    /\ last.entry.account.pk = None
    /\ is_existing(sl[last.who])
    /\ sl[last.who].account.pk \in DOMAIN accounts

\* The persisted users that own no account.
Orphans == {u \in DOMAIN users : \A a \in DOMAIN accounts : accounts[a].user # u}

\* C22: a save or connect that fails with IntegrityError keeps what it had
\* written: when the account is refused, the user it saved is persisted and,
\* if the save inserted it, owns no account; when the token is refused, the
\* user and the account are persisted and no token is.
C22_SaveNotAtomic ==
    [][(Op({"save", "connect"}) /\ last'.result = "IntegrityError") =>
          LET i == last'.who
              calls == last'.calls
              upk == calls[1].pk
              inserted == last'.op = "save" /\ sl[i].user.pk = None
              apk == Len(accounts) + 1
          IN  /\ Len(calls) \in {1, 2}
              /\ calls[1].call = "user.save"
              /\ upk \in DOMAIN users'
              /\ tokens' = tokens
              /\ IF inserted
                 THEN /\ upk = Len(users) + 1
                      /\ users' = Append(users, [username |-> sl[i].user.username])
                 ELSE DOMAIN users' = DOMAIN users
              /\ IF Len(calls) = 1
                 THEN /\ accounts' = accounts
                      /\ inserted => \A a \in DOMAIN accounts' :
                                        accounts'[a].user # upk
                 ELSE /\ calls[2] = Effect("account.save", apk, <<>>)
                      /\ DOMAIN accounts' = DOMAIN accounts \cup {apk}
                      /\ accounts'[apk].user = upk
                      /\ sl'[i].account = accounts'[apk]]_vars

\* A save was refused at its token after it had persisted the account, while
\* a user that an earlier refused save had inserted owns no account.
C22_Witness ==
    /\ last.op \in {"save", "connect"}
    /\ last.result = "IntegrityError"
    /\ Len(last.calls) = 2
    /\ last.calls[2].pk \in DOMAIN accounts
    /\ accounts[last.calls[2].pk].user = last.calls[1].pk
    /\ tokens = <<>>
    /\ Orphans # {}

\* C26: when get_current finds no application or several for
\* (account.provider, site), a save or connect on a new aggregate fails with
\* get_current's exception before it writes: no user, account or token row
\* changes, no call is made (setup_user_email included) and the aggregate's
\* account stays without a primary key.
C26_ResolveBeforeWrite ==
    [][(/\ Op({"save", "connect"})
        /\ sl[last'.who].account.pk = None
        /\ Cardinality(Configured(sl[last'.who].account.provider,
                                  last'.site)) # 1) =>
          /\ last'.result \in {"DoesNotExist", "MultipleObjectsReturned"}
          /\ users' = users
          /\ accounts' = accounts
          /\ tokens' = tokens
          /\ last'.calls = <<>>
          /\ sl'[last'.who].account = sl[last'.who].account
          /\ sl'[last'.who].token = sl[last'.who].token
          /\ ~is_existing(sl'[last'.who])]_vars

\* A save with e-mail addresses and a token was refused for a provider with
\* no application on the site, and nothing is persisted.
C26_Witness ==
    /\ last.op = "save"
    /\ ~last.connect
    /\ last.result = "DoesNotExist"
    /\ Len(last.entry.email_addresses) > 0
    /\ Len(last.entry.token) > 0
    /\ last.calls = <<>>
    /\ users = <<>>
    /\ accounts = <<>>
    /\ ~is_existing(sl[last.who])

\* C27: lookup writes no user and adds no account; of the persisted accounts
\* only the one it finds changes, and that one keeps its user, application,
\* provider, uid and primary key (extra_data and last_login change); the
\* candidate user of the aggregate is not persisted.
C27_LookupFrame ==
    [][Op({"lookup"}) =>
          LET i == last'.who
              Masked(a) == [accounts'[a] EXCEPT
                             !.extra_data = accounts[a].extra_data,
                             !.last_login = accounts[a].last_login]
          IN  /\ users' = users
              /\ DOMAIN accounts' = DOMAIN accounts
              /\ \A a \in DOMAIN accounts : Masked(a) = accounts[a]
              /\ \A a \in DOMAIN accounts :
                    accounts'[a] # accounts[a] =>
                       /\ LookupFinds(i, last'.site)
                       /\ a = TheAccount(i, last'.site)
              /\ CallsOf(last'.calls, "user.save") = {}
              /\ sl'[i].user.pk \in DOMAIN users \cup {None}
              /\ sl'[i].user.pk = None => sl'[i].user = sl[i].user]_vars

\* A lookup at a later time has found the account of another user name's
\* candidate, changed its extra_data and last_login and nothing else.
C27_Witness ==
    /\ last.op = "lookup"
    /\ last.result = "ok"
    /\ last.entry.user.pk = None
    /\ is_existing(sl[last.who])
    /\ accounts[sl[last.who].account.pk].last_login = 2
    /\ accounts[sl[last.who].account.pk].extra_data = "e2"
    /\ accounts[sl[last.who].account.pk].user \in DOMAIN users
    /\ Len(users) = 1


-----------------------------------------------------------------------------
(* Two handshakes of one identity in one process                           *)

MaxEmails == 2

\* The two handshakes that race.
Racers == {1, 2}

\* The tokens a provider of the race specification hands over.
RaceTokens ==
    {<<>>, <<NewToken(1, "t1", "r1", None)>>, <<NewToken(1, "t2", "", None)>>}

\* What a caller may pass as email_addresses: nothing, or a list of its own.
RaceEmailArguments == {<<>>, <<(<<>>)>>}

\* The address a provider reports after the aggregate is built.
RaceEmails == {EmailAddress("a@x", TRUE)}

\* A provider hands over one of the two handshakes of the identity
\* (google, u1); each handshake is built once.
ConstructRace ==
    /\ last = NoCall
    /\ \E i \in Racers, extra_data \in ExtraData, token \in RaceTokens,
          email_addresses \in RaceEmailArguments :
          /\ ~sl[i].live
          /\ init(i, [pk |-> None, username |-> "alice"],
                  NewAccount("google", "u1", extra_data), token, email_addresses)
    /\ UNCHANGED stashVars

LookupAny ==
    /\ last = NoCall
    /\ \E i \in Racers :
          /\ sl[i].live
          /\ lookup(i, RequestOf(1))
    /\ UNCHANGED stashVars

SaveAny ==
    /\ last = NoCall
    /\ \E i \in Racers :
          /\ sl[i].live
          /\ save(i, sl[i], sl[i], RequestOf(1), FALSE, "save")
    /\ UNCHANGED stashVars

\* A caller adds a provider-reported address to the aggregate's list in
\* place: sociallogin.email_addresses.append(address). The list is the one
\* the aggregate refers to, the default's when it was given none.
AddEmailAddress ==
    /\ last = NoCall
    /\ \E i \in Racers, address \in RaceEmails :
          /\ sl[i].live
          /\ Len(EmailsOf(sl[i])) < MaxEmails
          /\ IF sl[i].default_emails
             THEN /\ defaults' = [defaults EXCEPT
                                    !.email_addresses = Append(@, address)]
                  /\ UNCHANGED sl
             ELSE /\ sl' = [sl EXCEPT ![i].email_addresses = Append(@, address)]
                  /\ UNCHANGED defaults
          /\ last' = StateCall("append", i, sl[i], RequestOf(1), address)
    /\ UNCHANGED <<users, accounts, tokens, clock, settings, previous>>
    /\ UNCHANGED stashVars

\* The caller of a handshake has taken the outcome and keeps it, for that
\* handshake, when it is a lookup's.
ReturnRace ==
    /\ last # NoCall
    /\ last' = NoCall
    /\ previous' = [previous EXCEPT
                      ![last.who] = IF last.op = "lookup"
                                    THEN Kept(last, sl[last.who].account.pk)
                                    ELSE @]
    /\ UNCHANGED <<users, accounts, tokens, sl, clock, settings, defaults>>
    /\ UNCHANGED stashVars

InitRace ==
    /\ InitStash
    /\ users = <<>>
    /\ accounts = <<>>
    /\ tokens = <<>>
    /\ sl = [i \in Logins |-> NoLogin]
    /\ clock = 1
    /\ last = NoCall
    /\ settings = [STORE_TOKENS |-> TRUE]
    /\ defaults = [email_addresses |-> <<>>]
    /\ previous = [i \in Racers |-> NoPrevious]

RaceNext ==
    ConstructRace \/ LookupAny \/ SaveAny \/ AddEmailAddress \/ ReturnRace

RaceSpec == InitRace /\ [][RaceNext]_vars

\* The handshake's last lookup found no account and left the aggregate new.
LookupMissed(i) ==
    /\ previous[i].call.op = "lookup"
    /\ previous[i].call.result = "ok"
    /\ previous[i].account = None

\* C23: when two handshakes of one new identity have both looked up and found
\* nothing, and one of them has saved, the save of the other fails with
\* IntegrityError and leaves every account row and every token row as it was,
\* so that exactly one account of (application, uid) is stored, with the
\* owner, extra_data and token of the first save.
C23_SecondSaveConflicts ==
    [][\A i, j \in Racers :
          LET app == Resolved(i, 1).app
          IN  (/\ Op({"save"})
               /\ last'.who = i
               /\ j # i
               /\ LookupMissed(i)
               /\ LookupMissed(j)
               /\ ~is_existing(sl[i])
               /\ is_existing(sl[j])
               /\ sl[j].account.provider = sl[i].account.provider
               /\ sl[j].account.uid = sl[i].account.uid
               /\ accounts[sl[j].account.pk].app = app)
              => /\ last'.result = "IntegrityError"
                 /\ accounts' = accounts
                 /\ tokens' = tokens
                 /\ Cardinality({a \in DOMAIN accounts' :
                                    /\ accounts'[a].app = app
                                    /\ accounts'[a].uid = sl[i].account.uid}) = 1]_vars

\* The second save of a race was refused: it carried other extra_data and
\* another token than the first, whose account and token are the stored ones.
C23_Witness ==
    /\ last.op = "save"
    /\ last.result = "IntegrityError"
    /\ last.who = 2
    /\ LookupMissed(1)
    /\ LookupMissed(2)
    /\ is_existing(sl[1])
    /\ Len(accounts) = 1
    /\ accounts[1].user = sl[1].user.pk
    /\ accounts[1].extra_data = "e1"
    /\ last.entry.account.extra_data = "e2"
    /\ Len(tokens) = 1
    /\ tokens[1].token = "t1"
    /\ Len(last.entry.token) = 1
    /\ last.entry.token[1].token = "t2"

\* C28: an address appended to the list of one aggregate leaves the list of
\* every other aggregate as it was.
C28_AsStated ==
    [][(last = NoCall /\ last'.op = "append")
          => \A j \in Racers \ {last'.who} :
                sl[j].live =>
                   (IF sl'[j].default_emails THEN defaults'.email_addresses
                    ELSE sl'[j].email_addresses) = EmailsOf(sl[j])]_vars

====
